---- MODULE Spec2Model ----
(***************************************************************************)
(* Disaster-response pipeline: the resource lots (stock reservation and    *)
(* replenishment), the AgentCoordinator request pipeline and its polling   *)
(* cycle, the communication, prioritization and intake agents, the accept  *)
(* of tasks and the WebSocket ConnectionManager, modelled from             *)
(* ai_services/agno_agents, ai_services/services and                       *)
(* ai_services/api/endpoints.                                              *)
(***************************************************************************)
EXTENDS Integers, Sequences, FiniteSets, Bags, TLC

\* ---------------------------------------------------------------- bounds
NumWorkers == 2      \* concurrently running workers / coordinator instances
NumLots == 1         \* resource lots (rows of table "resources" with a stock)
MaxQty == 1          \* largest quantity of one reservation or replenishment
MaxStock == 1        \* largest initial stock of a lot
MaxLotOps == 2       \* lot operations started in one behaviour
MaxLotFaults == 1    \* store exceptions raised during lot operations

Workers == 1..NumWorkers
Lots == 1..NumLots
Quantities == 0..MaxQty

\* ------------------------------------------------------------- lot state
VARIABLES
    current_stock,         \* resources.current_stock, per lot
    resource_allocations,  \* bag of rows of table resource_allocations
    total_quantity,        \* history: initial stock plus applied replenishments
    service_reserved,      \* history: quantity granted by resource_service
    lotPc,                 \* per worker: position inside a lot operation
    lotLocal,              \* per worker: locals of the running lot operation
    lotOps,                \* lot operations started so far
    lotFaults,             \* store exceptions raised so far
    last_reserve           \* history: the reserve call that returned last

lotVars == <<current_stock, resource_allocations, total_quantity,
             service_reserved, lotPc, lotLocal, lotOps, lotFaults,
             last_reserve>>

NoLocal == [lot |-> 0, quantity |-> 0, stock |-> 0, op |-> "none"]

\* What is known of a reserve call that returned: the function called, the
\* quantity asked for, the stock of the lot when the call looked at it,
\* whether stock was taken, and the value returned to the caller.
ReserveReturn(op, quantity, stock, taken, returned) ==
    [op |-> op, quantity |-> quantity, stock |-> stock, taken |-> taken,
     returned |-> returned]

\* -------------------------------------------------------- pipeline state
NumRequests == 2     \* rows of table disaster_requests
NumResources == 1    \* rows of table resources that the coordinator assigns
MaxDbFaults == 2     \* store calls of the coordinator that raise
BatchLimit == 50     \* _get_pending_requests: .limit(50)

Coordinators == Workers
Requests == 1..NumRequests
Resources == 1..NumResources

VARIABLES
    status,                \* disaster_requests.status, per request
    agent_processing_data, \* disaster_requests.agent_processing_data: whose output
    error_message,         \* disaster_requests.error_message is set
    resource_status,       \* resources.status, per resource
    current_incident_id,   \* resources.current_incident_id, per resource
    resource_assignments,  \* rows of table resource_assignments
    is_processing,         \* AgentCoordinator.is_processing, per coordinator
    pc,                    \* per coordinator: next step of its running cycle
    pending_requests,      \* per coordinator: the batch fetched by its cycle
    cursor,                \* per coordinator: index of the request in progress
    available_resources,   \* per coordinator: result of _get_available_resources
    assignments,           \* per coordinator: assignments still to be written
    dbFaults,              \* store calls of the coordinator that raised so far
    executor_error,        \* history: requests for which a stage executor failed
    stage_failures,        \* history: per request, pipeline runs that raised
    urgency_level          \* disaster_requests.urgency_level, per request

pipeVars == <<status, agent_processing_data, error_message, resource_status,
              current_incident_id, resource_assignments, is_processing, pc,
              pending_requests, cursor, available_resources, assignments,
              dbFaults, executor_error, stage_failures, urgency_level>>

\* ---------------------------------------------------- communication state
NumTasks == 3           \* rows of table tasks with status "assigned"
MaxCommCycles == 3      \* communication cycles run in one behaviour
MaxCommFaults == 1      \* store calls of the communication agent that raise

Tasks == 1..NumTasks

VARIABLES
    notification_sent,     \* tasks.notification_sent (FALSE stands for null)
    emails_delivered,      \* history: per task, assignment e-mails delivered
    commPc,                \* position of the running communication cycle
    new_assignments,       \* tasks of the running cycle still to be processed
    commCycles,            \* communication cycles started so far
    commFaults             \* store calls of the agent that raised so far

commVars == <<notification_sent, emails_delivered, commPc, new_assignments,
              commCycles, commFaults>>


\* ------------------------------------------------- prioritization state
MaxNeeds == 2           \* needs listed by one request
MaxHoursOld == 7        \* age of a request in hours (time_factor is flat from 6)

VARIABLES
    prio_request,          \* the request handed to prioritize_request
    prio_ai_result,        \* what self.run answers for the request
    factors,               \* result of calculate_priority_factors, in 1/100
    priority,              \* result["priority"] of prioritize_request
    prioPc                 \* position inside prioritize_request

prioVars == <<prio_request, prio_ai_result, factors, priority, prioPc>>

\* --------------------------------------------------------- intake state
VARIABLES
    intake_text,           \* what the keyword functions find in title and description
    intake_ai_result,      \* what self.run answers for the request
    pre_adjustment,        \* priority and urgency before the life-safety adjustment
    processed_data,        \* the dictionary that process_request returns
    intakePc               \* position inside process_request

intakeVars == <<intake_text, intake_ai_result, pre_adjustment, processed_data,
                intakePc>>

\* ---------------------------------------------------------- cycle state
MaxTriggers == 2        \* calls of trigger_immediate_processing in one behaviour
MaxBatch == 2           \* requests fetched by one cycle

\* The calls of process_pending_requests of one coordinator: call 0 is the
\* one that start_processing_loop repeats, the others are the tasks that
\* trigger_immediate_processing creates.
Invocations == 0..MaxTriggers

VARIABLES
    invocation,            \* per call: its position
    batch_left,            \* per call: requests of its batch still to be processed
    cycle_failed,          \* per call: a request of its running cycle has failed
    last_exit,             \* history: per call, how it returned last
    triggers,              \* calls of trigger_immediate_processing so far
    trigger_status         \* 'status' of the last answer of trigger_immediate_processing

cycleVars == <<invocation, batch_left, cycle_failed, last_exit, triggers,
               trigger_status>>

\* The pipeline state apart from is_processing.
pipeOther == <<status, agent_processing_data, error_message, resource_status,
               current_incident_id, resource_assignments, pc, pending_requests,
               cursor, available_resources, assignments, dbFaults,
               executor_error, stage_failures, urgency_level>>

\* ------------------------------------------------ list reservation state
MaxRequirements == 3    \* requirements in one call of reserve_resources

VARIABLES
    resource_requirements, \* the list handed to resource_service.reserve_resources
    requirement_index,     \* the requirement that the loop is at
    stock_read,            \* current_stock read by update_resource_stock
    reserve_result,        \* what reserve_resources returned
    stock_before,          \* history: current_stock when the call started
    listPc                 \* position inside reserve_resources

listVars == <<resource_requirements, requirement_index, stock_read,
              reserve_result, stock_before, listPc>>

\* The lot state apart from current_stock.
lotOther == <<resource_allocations, total_quantity, service_reserved, lotPc,
              lotLocal, lotOps, lotFaults, last_reserve>>

\* ------------------------------------------------------ task accept state
NumVolunteers == 2      \* users that accept tasks

Volunteers == 1..NumVolunteers

VARIABLES
    task_exists,           \* per task id: table tasks has a row with this id
    assignee_id,           \* tasks.assignee_id, per task (0: null)
    task_status,           \* tasks.status, per task
    accept_response        \* per volunteer and task: the answer to PATCH .../accept

taskVars == <<task_exists, assignee_id, task_status, accept_response>>

\* -------------------------------------------------------- websocket state
NumSockets == 3         \* WebSocket objects that connect in one behaviour
NumWsUsers == 2         \* user ids of the endpoint /ws/{user_id}

Sockets == 1..NumSockets
WsUsers == 1..NumWsUsers

VARIABLES
    active_connections,    \* ConnectionManager.active_connections
    user_connections,      \* ConnectionManager.user_connections: user id -> sockets
    socket_state,          \* per socket: "new", "open" (its endpoint runs), "closed"
    socket_user            \* per socket: the user id of its endpoint (0: /ws, none)

wsVars == <<active_connections, user_connections, socket_state, socket_user>>

\* ---------------------------------------------------------- whole state
extVars == <<prioVars, intakeVars, cycleVars, listVars, taskVars, wsVars>>

vars == <<lotVars, pipeVars, commVars, extVars>>

\* What a prioritize_request step leaves alone.
PrioOthers == <<lotVars, pipeVars, commVars, intakeVars, cycleVars, listVars,
               taskVars, wsVars>>

\* What a process_request step of the intake agent leaves alone.
IntakeOthers == <<lotVars, pipeVars, commVars, prioVars, cycleVars, listVars,
               taskVars, wsVars>>

\* What a step of a call of process_pending_requests leaves alone.
CycleOthers == <<lotVars, pipeOther, commVars, prioVars, intakeVars, listVars,
               taskVars, wsVars>>

\* What a step of reserve_resources on a list leaves alone.
ListOthers == <<lotOther, pipeVars, commVars, prioVars, intakeVars, cycleVars,
               taskVars, wsVars>>

\* What an accept of a task leaves alone.
TaskOthers == <<lotVars, pipeVars, commVars, prioVars, intakeVars, cycleVars,
                listVars, wsVars>>

\* What an operation of the ConnectionManager leaves alone.
WsOthers == <<lotVars, pipeVars, commVars, prioVars, intakeVars, cycleVars,
              listVars, taskVars>>

\* State of a coordinator that runs no cycle (AgentCoordinator.__init__).
CoordinatorIdle ==
    /\ is_processing = [c \in Coordinators |-> FALSE]
    /\ pc = [c \in Coordinators |-> "idle"]
    /\ pending_requests = [c \in Coordinators |-> <<>>]
    /\ cursor = [c \in Coordinators |-> 0]
    /\ available_resources = [c \in Coordinators |-> {}]
    /\ assignments = [c \in Coordinators |-> {}]

\* No communication cycle has run: no task has been notified.
CommIdle ==
    /\ notification_sent = [t \in Tasks |-> FALSE]
    /\ emails_delivered = [t \in Tasks |-> 0]
    /\ commPc = "idle"
    /\ new_assignments = <<>>
    /\ commCycles = 0
    /\ commFaults = 0

\* prioritize_request has not been called.
PrioIdle ==
    /\ prio_request = [keywords |-> "none", vulnerable |-> FALSE,
                       scarce_needs |-> 0, low_needs |-> 0, hours_old |-> 0]
    /\ prio_ai_result = [kind |-> "error", priority |-> "absent"]
    /\ factors = <<>>
    /\ priority = "none"
    /\ prioPc = "idle"

\* process_request of the intake agent has not been called.
IntakeIdle ==
    /\ intake_text = [needs |-> {}, urgency |-> "low"]
    /\ intake_ai_result = [kind |-> "error", needs |-> {}, urgency |-> "absent",
                           priority |-> "absent"]
    /\ pre_adjustment = <<>>
    /\ processed_data = <<>>
    /\ intakePc = "idle"

\* The loop of the coordinator sleeps and no task has been created.
CycleIdle ==
    /\ invocation = [i \in Invocations |-> IF i = 0 THEN "sleep" ELSE "none"]
    /\ batch_left = [i \in Invocations |-> 0]
    /\ cycle_failed = [i \in Invocations |-> FALSE]
    /\ last_exit = [i \in Invocations |-> "none"]
    /\ triggers = 0
    /\ trigger_status = "none"

\* resource_service.reserve_resources has not been called with a list.
ListIdle ==
    /\ resource_requirements = <<>>
    /\ requirement_index = 0
    /\ stock_read = 0
    /\ reserve_result = "none"
    /\ stock_before = <<>>
    /\ listPc = "idle"

\* No volunteer has asked to accept a task; every task is open.
TaskIdle ==
    /\ task_exists = [t \in Tasks |-> TRUE]
    /\ assignee_id = [t \in Tasks |-> 0]
    /\ task_status = [t \in Tasks |-> "open"]
    /\ accept_response = [u \in Volunteers |-> [t \in Tasks |-> "none"]]

\* ConnectionManager.__init__: no connection.
WsIdle ==
    /\ active_connections = {}
    /\ user_connections = <<>>
    /\ socket_state = [ws \in Sockets |-> "new"]
    /\ socket_user = [ws \in Sockets |-> 0]

ExtIdle ==
    /\ PrioIdle
    /\ IntakeIdle
    /\ CycleIdle
    /\ ListIdle
    /\ TaskIdle
    /\ WsIdle

PipeInit ==
    /\ status = [r \in Requests |-> "PENDING"]
    /\ agent_processing_data = [r \in Requests |-> "none"]
    /\ error_message = [r \in Requests |-> FALSE]
    /\ resource_status \in [Resources -> {"AVAILABLE", "OUT_OF_SERVICE"}]
    /\ current_incident_id = [u \in Resources |-> 0]   \* NULL: no request
    /\ resource_assignments = {}
    /\ CoordinatorIdle
    /\ dbFaults = 0
    /\ executor_error = {}
    /\ stage_failures = [r \in Requests |-> 0]
    /\ urgency_level \in {[r \in Requests |->
                               IF r = k THEN "critical" ELSE "low"] :
                           k \in Requests}
    /\ CommIdle

LotIdle ==
    /\ resource_allocations = EmptyBag
    /\ total_quantity = current_stock
    /\ service_reserved = [l \in Lots |-> 0]
    /\ lotPc = [w \in Workers |-> "idle"]
    /\ lotLocal = [w \in Workers |-> NoLocal]
    /\ lotOps = 0
    /\ lotFaults = 0
    /\ last_reserve = ReserveReturn("none", 0, 0, FALSE, FALSE)

\* The lots under concurrent reservation; the pipeline is at rest.
LotInit ==
    /\ current_stock \in [Lots -> 0..MaxStock]
    /\ LotIdle
    /\ ExtIdle
    /\ PipeInit
    /\ resource_status = [u \in Resources |-> "AVAILABLE"]
    /\ urgency_level = [r \in Requests |-> IF r = 1 THEN "critical" ELSE "low"]

\* AssignmentAgent.reserve_resources, the select: rows of the lot whose
\* current_stock is strictly greater than the quantity.
AgentSelectMatches(stock, quantity) == stock > quantity

\* AssignmentAgent.reserve_resources: new_stock = current_stock - quantity,
\* computed from the row that the select returned.
AgentNewStock(stock, quantity) == stock - quantity

AgentReserveSelect(w, l, q) ==
    /\ lotPc[w] = "idle"
    /\ lotOps < MaxLotOps
    /\ lotOps' = lotOps + 1
    /\ IF AgentSelectMatches(current_stock[l], q)
         THEN /\ lotLocal' = [lotLocal EXCEPT ![w] =
                     [lot |-> l, quantity |-> q, stock |-> current_stock[l],
                      op |-> "agent"]]
              /\ lotPc' = [lotPc EXCEPT ![w] = "agent_update"]
              /\ UNCHANGED last_reserve
         ELSE /\ UNCHANGED <<lotLocal, lotPc>>
              /\ last_reserve' =
                     ReserveReturn("agent", q, current_stock[l], FALSE, TRUE)
    /\ UNCHANGED <<current_stock, resource_allocations, total_quantity,
                   service_reserved, lotFaults>>
    /\ UNCHANGED pipeVars
    /\ UNCHANGED commVars
    /\ UNCHANGED extVars

AgentReserveUpdate(w) ==
    /\ lotPc[w] = "agent_update"
    /\ current_stock' = [current_stock EXCEPT ![lotLocal[w].lot] =
           AgentNewStock(lotLocal[w].stock, lotLocal[w].quantity)]
    /\ lotPc' = [lotPc EXCEPT ![w] = "agent_insert"]
    /\ UNCHANGED <<resource_allocations, total_quantity, service_reserved,
                   lotLocal, lotOps, lotFaults, last_reserve>>
    /\ UNCHANGED pipeVars
    /\ UNCHANGED commVars
    /\ UNCHANGED extVars

AgentReserveInsert(w) ==
    /\ lotPc[w] = "agent_insert"
    /\ resource_allocations' = resource_allocations (+)
           SetToBag({[resource_id |-> lotLocal[w].lot,
                      quantity |-> lotLocal[w].quantity,
                      status |-> "allocated"]})
    /\ lotPc' = [lotPc EXCEPT ![w] = "idle"]
    /\ lotLocal' = [lotLocal EXCEPT ![w] = NoLocal]
    /\ last_reserve' = ReserveReturn("agent", lotLocal[w].quantity,
                                     lotLocal[w].stock, TRUE, TRUE)
    /\ UNCHANGED <<current_stock, total_quantity, service_reserved,
                   lotOps, lotFaults>>
    /\ UNCHANGED pipeVars
    /\ UNCHANGED commVars
    /\ UNCHANGED extVars

\* update_resource_stock without the max(0, ...) of the decrement.
NewStock_Unclamped(stock, change_amount, operation) ==
    IF operation = "increment"
      THEN stock + change_amount
      ELSE stock - change_amount

\* update_resource_stock: the new stock for "increment" and for "decrement".
NewStock(stock, change_amount, operation) ==
    IF operation = "increment"
      THEN stock + change_amount
      ELSE IF stock - change_amount > 0 THEN stock - change_amount ELSE 0

\* resource_service.reserve_resources: a lot has sufficient stock.
ServiceSufficient(stock, quantity) == stock >= quantity

\* resource_service.reserve_resources for one requirement: find a lot with
\* sufficient stock, then consume_resource on it.
ServiceReserveCheck(w, l, q) ==
    /\ lotPc[w] = "idle"
    /\ lotOps < MaxLotOps
    /\ lotOps' = lotOps + 1
    /\ IF ServiceSufficient(current_stock[l], q)
         THEN /\ lotLocal' = [lotLocal EXCEPT ![w] =
                     [lot |-> l, quantity |-> q, stock |-> 0,
                      op |-> "decrement"]]
              /\ lotPc' = [lotPc EXCEPT ![w] = "stock_read"]
              /\ UNCHANGED last_reserve
         ELSE /\ UNCHANGED <<lotLocal, lotPc>>
              /\ last_reserve' =
                     ReserveReturn("service", q, current_stock[l], FALSE, FALSE)
    /\ UNCHANGED <<current_stock, resource_allocations, total_quantity,
                   service_reserved, lotFaults>>
    /\ UNCHANGED pipeVars
    /\ UNCHANGED commVars
    /\ UNCHANGED extVars

\* PATCH /resources/{id}/replenish -> replenish_resource: amount > 0.
ReplenishStart(w, l, amount) ==
    /\ lotPc[w] = "idle"
    /\ lotOps < MaxLotOps
    /\ amount > 0
    /\ lotOps' = lotOps + 1
    /\ lotLocal' = [lotLocal EXCEPT ![w] =
           [lot |-> l, quantity |-> amount, stock |-> 0, op |-> "increment"]]
    /\ lotPc' = [lotPc EXCEPT ![w] = "stock_read"]
    /\ UNCHANGED <<current_stock, resource_allocations, total_quantity,
                   service_reserved, lotFaults, last_reserve>>
    /\ UNCHANGED pipeVars
    /\ UNCHANGED commVars
    /\ UNCHANGED extVars

\* update_resource_stock, first half: read the current row.
UpdateStockRead(w) ==
    /\ lotPc[w] = "stock_read"
    /\ lotLocal' = [lotLocal EXCEPT ![w].stock = current_stock[lotLocal[w].lot]]
    /\ lotPc' = [lotPc EXCEPT ![w] = "stock_write"]
    /\ UNCHANGED <<current_stock, resource_allocations, total_quantity,
                   service_reserved, lotOps, lotFaults, last_reserve>>
    /\ UNCHANGED pipeVars
    /\ UNCHANGED commVars
    /\ UNCHANGED extVars

\* update_resource_stock, second half: write the stock computed from the read.
UpdateStockWrite(w) ==
    /\ lotPc[w] = "stock_write"
    /\ LET loc == lotLocal[w] IN
       /\ current_stock' = [current_stock EXCEPT ![loc.lot] =
              NewStock(loc.stock, loc.quantity, loc.op)]
       /\ IF loc.op = "increment"
            THEN /\ total_quantity' = [total_quantity EXCEPT ![loc.lot] =
                        @ + loc.quantity]
                 /\ UNCHANGED <<service_reserved, last_reserve>>
            ELSE /\ service_reserved' = [service_reserved EXCEPT ![loc.lot] =
                        @ + loc.quantity]
                 /\ last_reserve' = ReserveReturn("service", loc.quantity,
                                                  loc.stock, TRUE, TRUE)
                 /\ UNCHANGED total_quantity
    /\ lotPc' = [lotPc EXCEPT ![w] = "idle"]
    /\ lotLocal' = [lotLocal EXCEPT ![w] = NoLocal]
    /\ UNCHANGED <<resource_allocations, lotOps, lotFaults>>
    /\ UNCHANGED pipeVars
    /\ UNCHANGED commVars
    /\ UNCHANGED extVars

\* A store call of a running lot operation raises: the operation is abandoned
\* (reserve_resources returns False, update_resource_stock returns None).
LotStoreException(w) ==
    /\ lotPc[w] # "idle"
    /\ lotFaults < MaxLotFaults
    /\ lotFaults' = lotFaults + 1
    /\ lotPc' = [lotPc EXCEPT ![w] = "idle"]
    /\ lotLocal' = [lotLocal EXCEPT ![w] = NoLocal]
    /\ UNCHANGED <<current_stock, resource_allocations, total_quantity,
                   service_reserved, lotOps, last_reserve>>
    /\ UNCHANGED pipeVars
    /\ UNCHANGED commVars
    /\ UNCHANGED extVars

LotNext ==
    \/ \E w \in Workers, l \in Lots, q \in Quantities : AgentReserveSelect(w, l, q)
    \/ \E w \in Workers : AgentReserveUpdate(w)
    \/ \E w \in Workers : AgentReserveInsert(w)
    \/ \E w \in Workers, l \in Lots, q \in Quantities : ServiceReserveCheck(w, l, q)
    \/ \E w \in Workers, l \in Lots, a \in 1..MaxQty : ReplenishStart(w, l, a)
    \/ \E w \in Workers : UpdateStockRead(w)
    \/ \E w \in Workers : UpdateStockWrite(w)
    \/ \E w \in Workers : LotStoreException(w)

LotSpec == LotInit /\ [][LotNext]_vars

\* ----------------------------------------------------- pipeline actions
RunnableStatuses == {"PENDING", "SUBMITTED", "RETRY"}

Min(a, b) == IF a < b THEN a ELSE b

RECURSIVE SortedSeq(_)
SortedSeq(S) ==
    IF S = {} THEN <<>>
    ELSE LET m == CHOOSE x \in S : \A y \in S : x <= y
         IN <<m>> \o SortedSeq(S \ {m})

\* _get_pending_requests: the rows whose status is PENDING, SUBMITTED or
\* RETRY, oldest first (requests are numbered in creation order), at most 50.
GetPendingRequests ==
    LET rows == SortedSeq({r \in Requests : status[r] \in RunnableStatuses})
    IN SubSeq(rows, 1, Min(Len(rows), BatchLimit))

\* The request that a running cycle is processing.
RequestId(c) == pending_requests[c][cursor[c]]

\* A store call takes effect or raises.
StoreOutcomes == IF dbFaults < MaxDbFaults THEN {TRUE, FALSE} ELSE {TRUE}

CountFault(ok) == dbFaults' = IF ok THEN dbFaults ELSE dbFaults + 1

\* _update_request_status: one update of status and agent_processing_data;
\* an exception of the store is logged and swallowed.
UpdateRequestStatus(r, st, data, ok) ==
    /\ status' = IF ok THEN [status EXCEPT ![r] = st] ELSE status
    /\ agent_processing_data' =
           IF ok THEN [agent_processing_data EXCEPT ![r] = data]
                 ELSE agent_processing_data
    /\ CountFault(ok)

\* _mark_request_failed: one update of status and error_message; an
\* exception of the store is logged and swallowed.
MarkRequestFailed(r, ok) ==
    /\ status' = IF ok THEN [status EXCEPT ![r] = "PROCESSING_FAILED"] ELSE status
    /\ error_message' = IF ok THEN [error_message EXCEPT ![r] = TRUE]
                              ELSE error_message
    /\ CountFault(ok)

\* process_pending_requests, after _process_single_request returned or raised:
\* the loop takes the next request of the batch, or the cycle ends and the
\* finally clause resets is_processing.
FinishRequest(c) ==
    /\ available_resources' = [available_resources EXCEPT ![c] = {}]
    /\ assignments' = [assignments EXCEPT ![c] = {}]
    /\ IF cursor[c] < Len(pending_requests[c])
         THEN /\ cursor' = [cursor EXCEPT ![c] = @ + 1]
              /\ pc' = [pc EXCEPT ![c] = "intake"]
              /\ UNCHANGED <<is_processing, pending_requests>>
         ELSE /\ cursor' = [cursor EXCEPT ![c] = 0]
              /\ pc' = [pc EXCEPT ![c] = "idle"]
              /\ is_processing' = [is_processing EXCEPT ![c] = FALSE]
              /\ pending_requests' = [pending_requests EXCEPT ![c] = <<>>]

\* _process_single_request enters its except clause.
RaiseInPipeline(c) ==
    /\ pc' = [pc EXCEPT ![c] = "failed_inner"]
    /\ stage_failures' = [stage_failures EXCEPT ![RequestId(c)] = @ + 1]
    /\ UNCHANGED <<status, agent_processing_data, dbFaults, is_processing,
                   pending_requests, cursor, available_resources, assignments>>

\* process_pending_requests: a cycle starts unless one is running, and
\* fetches its batch. (A cycle that fetches nothing changes no state.)
ProcessPendingRequests(c) ==
    /\ ~is_processing[c]
    /\ pc[c] = "idle"
    /\ GetPendingRequests # <<>>
    /\ is_processing' = [is_processing EXCEPT ![c] = TRUE]
    /\ pending_requests' = [pending_requests EXCEPT ![c] = GetPendingRequests]
    /\ cursor' = [cursor EXCEPT ![c] = 1]
    /\ pc' = [pc EXCEPT ![c] = "intake"]
    /\ UNCHANGED <<status, agent_processing_data, error_message,
                   resource_status, current_incident_id, resource_assignments,
                   available_resources, assignments, dbFaults, executor_error,
                   stage_failures, urgency_level>>
    /\ UNCHANGED lotVars
    /\ UNCHANGED commVars
    /\ UNCHANGED extVars

\* What the awaited intake_agent.process_request can hand the coordinator:
\* a result with success set, the result that IntakeAgent.process_request
\* builds (it has no 'success' key), or an error.
IntakeOutcomes == {"success", "no_success_key", "error"}

\* _process_single_request, step 1: `if not intake_result.get('success')`.
IntakeSucceeded(outcome) == outcome = "success"

IntakeStage(c, outcome, ok) ==
    /\ pc[c] = "intake"
    /\ IF IntakeSucceeded(outcome)
         THEN /\ UpdateRequestStatus(RequestId(c), "INTAKE_COMPLETE", "intake", ok)
              /\ pc' = [pc EXCEPT ![c] = "prioritize"]
              /\ UNCHANGED <<is_processing, pending_requests, cursor,
                             available_resources, assignments,
                             stage_failures>>
         ELSE /\ ok
              /\ RaiseInPipeline(c)
    /\ executor_error' = IF outcome = "error"
                           THEN executor_error \cup {RequestId(c)}
                           ELSE executor_error
    /\ UNCHANGED <<error_message, resource_status, current_incident_id,
                   resource_assignments, urgency_level>>
    /\ UNCHANGED lotVars
    /\ UNCHANGED commVars
    /\ UNCHANGED extVars

\* What a stage executor other than intake can hand the coordinator.
StageOutcomes == {"success", "error"}

\* _process_single_request, step 2.
PrioritizeStage(c, outcome, ok) ==
    /\ pc[c] = "prioritize"
    /\ IF outcome = "success"
         THEN /\ UpdateRequestStatus(RequestId(c), "PRIORITIZED", "prioritization", ok)
              /\ pc' = [pc EXCEPT ![c] = "get_resources"]
              /\ UNCHANGED <<is_processing, pending_requests, cursor,
                             available_resources, assignments,
                             stage_failures>>
         ELSE /\ ok
              /\ RaiseInPipeline(c)
    /\ executor_error' = IF outcome = "error"
                           THEN executor_error \cup {RequestId(c)}
                           ELSE executor_error
    /\ UNCHANGED <<error_message, resource_status, current_incident_id,
                   resource_assignments, urgency_level>>
    /\ UNCHANGED lotVars
    /\ UNCHANGED commVars
    /\ UNCHANGED extVars

\* _get_available_resources: the resources whose status is AVAILABLE, or
\* nothing when the store raises.
GetAvailableResources(c, ok) ==
    /\ pc[c] = "get_resources"
    /\ available_resources' = [available_resources EXCEPT ![c] =
           IF ok THEN {u \in Resources : resource_status[u] = "AVAILABLE"}
                 ELSE {}]
    /\ CountFault(ok)
    /\ pc' = [pc EXCEPT ![c] = "assign"]
    /\ UNCHANGED <<status, agent_processing_data, error_message,
                   resource_status, current_incident_id, resource_assignments,
                   is_processing, pending_requests, cursor, assignments,
                   executor_error,
                   stage_failures, urgency_level>>
    /\ UNCHANGED lotVars
    /\ UNCHANGED commVars
    /\ UNCHANGED extVars

\* The assignments that assignment_agent.assign can return: resources among
\* those it was given.
AssignChoices(available) == SUBSET available

\* _process_single_request, step 3 up to the status update.
AssignStage(c, outcome, chosen, ok) ==
    /\ pc[c] = "assign"
    /\ chosen \in AssignChoices(available_resources[c])
    /\ IF outcome = "success"
         THEN IF chosen = {}
                THEN /\ UpdateRequestStatus(RequestId(c),
                            "NO_RESOURCES_AVAILABLE", "assignment", ok)
                     /\ FinishRequest(c)
                     /\ UNCHANGED stage_failures
                ELSE /\ UpdateRequestStatus(RequestId(c),
                            "RESOURCES_ASSIGNED", "assignment", ok)
                     /\ assignments' = [assignments EXCEPT ![c] = chosen]
                     /\ pc' = [pc EXCEPT ![c] = "create_assignments"]
                     /\ UNCHANGED <<is_processing, pending_requests, cursor,
                                    available_resources, stage_failures>>
         ELSE /\ ok
              /\ chosen = {}
              /\ RaiseInPipeline(c)
    /\ executor_error' = IF outcome = "error"
                           THEN executor_error \cup {RequestId(c)}
                           ELSE executor_error
    /\ UNCHANGED <<error_message, resource_status, current_incident_id,
                   resource_assignments, urgency_level>>
    /\ UNCHANGED lotVars
    /\ UNCHANGED commVars
    /\ UNCHANGED extVars

\* _create_resource_assignments, the insert of the assignment records; an
\* exception of the store is logged and swallowed, and no resource is updated.
CreateResourceAssignments(c, ok) ==
    /\ pc[c] = "create_assignments"
    /\ resource_assignments' =
           IF ok THEN resource_assignments \cup
                        {[resource_id |-> u, incident_id |-> RequestId(c)] :
                             u \in assignments[c]}
                 ELSE resource_assignments
    /\ CountFault(ok)
    /\ pc' = [pc EXCEPT ![c] = IF ok THEN "update_resources" ELSE "notify"]
    /\ assignments' = IF ok THEN assignments
                            ELSE [assignments EXCEPT ![c] = {}]
    /\ UNCHANGED <<status, agent_processing_data, error_message,
                   resource_status, current_incident_id, is_processing,
                   pending_requests, cursor, available_resources,
                   executor_error,
                   stage_failures, urgency_level>>
    /\ UNCHANGED lotVars
    /\ UNCHANGED commVars
    /\ UNCHANGED extVars

\* _create_resource_assignments, one turn of the loop that marks a resource
\* ASSIGNED to the request; an exception of the store ends the loop.
UpdateResource(c, u, ok) ==
    /\ pc[c] = "update_resources"
    /\ u \in assignments[c]
    /\ resource_status' = IF ok THEN [resource_status EXCEPT ![u] = "ASSIGNED"]
                                ELSE resource_status
    /\ current_incident_id' =
           IF ok THEN [current_incident_id EXCEPT ![u] = RequestId(c)]
                 ELSE current_incident_id
    /\ CountFault(ok)
    /\ LET rest == IF ok THEN assignments[c] \ {u} ELSE {}
       IN /\ assignments' = [assignments EXCEPT ![c] = rest]
          /\ pc' = [pc EXCEPT ![c] = IF rest = {} THEN "notify"
                                                  ELSE "update_resources"]
    /\ UNCHANGED <<status, agent_processing_data, error_message,
                   resource_assignments, is_processing, pending_requests,
                   cursor, available_resources, executor_error,
                   stage_failures, urgency_level>>
    /\ UNCHANGED lotVars
    /\ UNCHANGED commVars
    /\ UNCHANGED extVars

\* _process_single_request, step 4: stakeholders, generate_notifications,
\* send_notification for each, then the final status update.
NotifyStage(c, outcome, ok) ==
    /\ pc[c] = "notify"
    /\ IF outcome = "success"
         THEN /\ UpdateRequestStatus(RequestId(c), "PROCESSING_COMPLETE",
                                     "communication", ok)
              /\ FinishRequest(c)
              /\ UNCHANGED stage_failures
         ELSE /\ ok
              /\ RaiseInPipeline(c)
    /\ executor_error' = IF outcome = "error"
                           THEN executor_error \cup {RequestId(c)}
                           ELSE executor_error
    /\ UNCHANGED <<error_message, resource_status, current_incident_id,
                   resource_assignments, urgency_level>>
    /\ UNCHANGED lotVars
    /\ UNCHANGED commVars
    /\ UNCHANGED extVars

\* _process_single_request, the except clause: _mark_request_failed, then
\* the exception is raised again.
MarkFailedInPipeline(c, ok) ==
    /\ pc[c] = "failed_inner"
    /\ MarkRequestFailed(RequestId(c), ok)
    /\ pc' = [pc EXCEPT ![c] = "failed_outer"]
    /\ UNCHANGED <<agent_processing_data, resource_status, current_incident_id,
                   resource_assignments, is_processing, pending_requests,
                   cursor, available_resources, assignments, executor_error,
                   stage_failures, urgency_level>>
    /\ UNCHANGED lotVars
    /\ UNCHANGED commVars
    /\ UNCHANGED extVars

\* process_pending_requests, the except clause of the loop body:
\* _mark_request_failed once more, then the next request.
MarkFailedInCycle(c, ok) ==
    /\ pc[c] = "failed_outer"
    /\ MarkRequestFailed(RequestId(c), ok)
    /\ FinishRequest(c)
    /\ UNCHANGED <<agent_processing_data, resource_status, current_incident_id,
                   resource_assignments, executor_error,
                   stage_failures, urgency_level>>
    /\ UNCHANGED lotVars
    /\ UNCHANGED commVars
    /\ UNCHANGED extVars

\* The external replenishment process puts a resource into service.
ResourceReplenished(u) ==
    /\ resource_status[u] = "OUT_OF_SERVICE"
    /\ resource_status' = [resource_status EXCEPT ![u] = "AVAILABLE"]
    /\ UNCHANGED <<status, agent_processing_data, error_message,
                   current_incident_id, resource_assignments, is_processing,
                   pc, pending_requests, cursor, available_resources,
                   assignments, dbFaults, executor_error,
                   stage_failures, urgency_level>>
    /\ UNCHANGED lotVars
    /\ UNCHANGED commVars
    /\ UNCHANGED extVars

Init ==
    /\ PipeInit
    /\ current_stock = [l \in Lots |-> 0]
    /\ LotIdle
    /\ ExtIdle

Next ==
    \/ \E c \in Coordinators : ProcessPendingRequests(c)
    \/ \E c \in Coordinators, o \in IntakeOutcomes, ok \in StoreOutcomes :
           IntakeStage(c, o, ok)
    \/ \E c \in Coordinators, o \in StageOutcomes, ok \in StoreOutcomes :
           PrioritizeStage(c, o, ok)
    \/ \E c \in Coordinators, ok \in StoreOutcomes : GetAvailableResources(c, ok)
    \/ \E c \in Coordinators, o \in StageOutcomes, ch \in SUBSET Resources,
          ok \in StoreOutcomes : AssignStage(c, o, ch, ok)
    \/ \E c \in Coordinators, ok \in StoreOutcomes : CreateResourceAssignments(c, ok)
    \/ \E c \in Coordinators, u \in Resources, ok \in StoreOutcomes :
           UpdateResource(c, u, ok)
    \/ \E c \in Coordinators, o \in StageOutcomes, ok \in StoreOutcomes :
           NotifyStage(c, o, ok)
    \/ \E c \in Coordinators, ok \in StoreOutcomes : MarkFailedInPipeline(c, ok)
    \/ \E c \in Coordinators, ok \in StoreOutcomes : MarkFailedInCycle(c, ok)
    \/ \E u \in Resources : ResourceReplenished(u)

Spec == Init /\ [][Next]_vars

\* One coordinator instance whose store calls all take effect.
LoopNext ==
    \/ ProcessPendingRequests(1)
    \/ \E o \in IntakeOutcomes : IntakeStage(1, o, TRUE)
    \/ \E o \in StageOutcomes : PrioritizeStage(1, o, TRUE)
    \/ GetAvailableResources(1, TRUE)
    \/ \E o \in StageOutcomes, ch \in SUBSET Resources :
           AssignStage(1, o, ch, TRUE)
    \/ CreateResourceAssignments(1, TRUE)
    \/ \E u \in Resources : UpdateResource(1, u, TRUE)
    \/ \E o \in StageOutcomes : NotifyStage(1, o, TRUE)
    \/ MarkFailedInPipeline(1, TRUE)
    \/ MarkFailedInCycle(1, TRUE)
    \/ \E u \in Resources : ResourceReplenished(u)

\* start_processing_loop: the coordinator runs a cycle every interval, each
\* awaited step of a cycle completes, and the replenishment process runs.
LoopSpec == Init /\ [][LoopNext]_vars /\ WF_vars(LoopNext)

\* ------------------------------------------------- communication actions
\* get_new_assignments: the tasks with status "assigned" whose
\* notification_sent is null, in the order of the table.
GetNewAssignments == SortedSeq({t \in Tasks : ~notification_sent[t]})

\* run_communication_cycle starts: it fetches the new assignments. (The
\* status updates that the cycle handles next have the same shape over
\* requests.status_notification_sent and touch nothing of the assignments.)
RunCommunicationCycle ==
    /\ commPc = "idle"
    /\ commCycles < MaxCommCycles
    /\ commCycles' = commCycles + 1
    /\ new_assignments' = GetNewAssignments
    /\ commPc' = IF GetNewAssignments = <<>> THEN "idle" ELSE "send"
    /\ UNCHANGED <<notification_sent, emails_delivered, commFaults>>
    /\ UNCHANGED lotVars
    /\ UNCHANGED pipeVars
    /\ UNCHANGED extVars

\* process_task_assignments goes on to the next assignment of its list.
NextAssignment ==
    /\ new_assignments' = Tail(new_assignments)
    /\ commPc' = IF Tail(new_assignments) = <<>> THEN "idle" ELSE "send"

\* process_task_assignments, one assignment: send_email to the assignee; the
\* task is updated only `if email_sent`.
SendAssignmentEmail(email_sent) ==
    /\ commPc = "send"
    /\ emails_delivered' =
           IF email_sent
             THEN [emails_delivered EXCEPT ![Head(new_assignments)] = @ + 1]
             ELSE emails_delivered
    /\ IF email_sent
         THEN /\ commPc' = "mark"
              /\ UNCHANGED new_assignments
         ELSE NextAssignment
    /\ UNCHANGED <<notification_sent, commCycles, commFaults>>
    /\ UNCHANGED lotVars
    /\ UNCHANGED pipeVars
    /\ UNCHANGED extVars

\* process_task_assignments, after a delivered e-mail: the update that sets
\* tasks.notification_sent; an exception of the store is logged and the loop
\* goes on.
MarkNotificationSent(ok) ==
    /\ commPc = "mark"
    /\ (~ok) => commFaults < MaxCommFaults
    /\ notification_sent' =
           IF ok THEN [notification_sent EXCEPT ![Head(new_assignments)] = TRUE]
                 ELSE notification_sent
    /\ commFaults' = IF ok THEN commFaults ELSE commFaults + 1
    /\ NextAssignment
    /\ UNCHANGED <<emails_delivered, commCycles>>
    /\ UNCHANGED lotVars
    /\ UNCHANGED pipeVars
    /\ UNCHANGED extVars

\* The lots, the pipeline and the communication agent at rest.
BaseIdle ==
    /\ PipeInit
    /\ resource_status = [u \in Resources |-> "AVAILABLE"]
    /\ urgency_level = [r \in Requests |-> IF r = 1 THEN "critical" ELSE "low"]
    /\ current_stock = [l \in Lots |-> 0]
    /\ LotIdle

CommInit ==
    /\ BaseIdle
    /\ ExtIdle

CommNext ==
    \/ RunCommunicationCycle
    \/ \E email_sent \in BOOLEAN : SendAssignmentEmail(email_sent)
    \/ \E ok \in BOOLEAN : MarkNotificationSent(ok)

\* Communication cycles run one after the other.
CommSpec == CommInit /\ [][CommNext]_vars


\* ------------------------------------------------ prioritization actions
\* The priority tiers, and their order low < medium < high < critical.
Tiers == {"low", "medium", "high", "critical"}

TierRank(t) ==
    CASE t = "low" -> 0
      [] t = "medium" -> 1
      [] t = "high" -> 2
      [] t = "critical" -> 3

\* What calculate_priority_factors reads of a request: the strongest urgency
\* word of its text, whether the text has a vulnerability word, how many of
\* its needs are at or below the threshold (scarce) and how many are at or
\* below twice the threshold (low), and its age in whole hours.
PrioRequests ==
    {q \in [keywords : {"critical", "high", "none"}, vulnerable : BOOLEAN,
            scarce_needs : 0..MaxNeeds, low_needs : 0..MaxNeeds,
            hours_old : 0..MaxHoursOld] :
        q.scarce_needs + q.low_needs <= MaxNeeds}

\* What self.run can answer: JSON with a priority, JSON without one, text
\* that json.loads rejects, or an exception.
AiPriorityResults ==
    [kind : {"json"}, priority : Tiers \cup {"absent"}]
        \cup [kind : {"malformed", "error"}, priority : {"absent"}]

\* calculate_priority_factors, the four factors in hundredths.
UrgencyKeywords(keywords) ==
    CASE keywords = "critical" -> 100
      [] keywords = "high" -> 70
      [] OTHER -> 30

VulnerabilityFactor(vulnerable) == IF vulnerable THEN 80 ELSE 20

ResourceScarcity(scarce_needs, low_needs) ==
    Min(30 * scarce_needs + 10 * low_needs, 100)

TimeFactor(hours_old) == Min(5 * hours_old, 30)

CalculatePriorityFactors(request) ==
    <<UrgencyKeywords(request.keywords),
      VulnerabilityFactor(request.vulnerable),
      ResourceScarcity(request.scarce_needs, request.low_needs),
      TimeFactor(request.hours_old)>>

\* sum(factors.values()), in hundredths.
RECURSIVE SumSeq(_)
SumSeq(seq) == IF seq = <<>> THEN 0 ELSE Head(seq) + SumSeq(Tail(seq))

\* The fallback logic with the tiers of the two middle bands exchanged.
FallbackPriority_Exchanged(f) ==
    IF SumSeq(f) >= 80 * Len(f) THEN "critical"
    ELSE IF SumSeq(f) >= 60 * Len(f) THEN "medium"
    ELSE IF SumSeq(f) >= 30 * Len(f) THEN "high"
    ELSE "low"

\* prioritize_request, the fallback logic: total_score is the mean of the
\* factors, compared with 0.8, 0.6 and 0.3.
FallbackPriority(f) ==
    IF SumSeq(f) >= 80 * Len(f) THEN "critical"
    ELSE IF SumSeq(f) >= 60 * Len(f) THEN "high"
    ELSE IF SumSeq(f) >= 30 * Len(f) THEN "medium"
    ELSE "low"

\* prioritize_request: result["priority"] for the factors and the answer.
PriorityOf(f, ai_result) ==
    CASE ai_result.kind = "error" -> "medium"
      [] ai_result.kind = "malformed" -> FallbackPriority(f)
      [] ai_result.priority = "absent" -> "medium"
      [] OTHER -> ai_result.priority

\* prioritize_request up to the call of self.run.
PrioritizeRequestFactors ==
    /\ prioPc = "start"
    /\ factors' = CalculatePriorityFactors(prio_request)
    /\ prioPc' = "run"
    /\ UNCHANGED <<prio_request, prio_ai_result, priority>>
    /\ UNCHANGED PrioOthers

\* prioritize_request, self.run has answered: parse or fall back.
PrioritizeRequestParse ==
    /\ prioPc = "run"
    /\ prio_ai_result.kind # "error"
    /\ priority' = PriorityOf(factors, prio_ai_result)
    /\ prioPc' = "done"
    /\ UNCHANGED <<prio_request, prio_ai_result, factors>>
    /\ UNCHANGED PrioOthers

\* prioritize_request, self.run has raised: the outer except.
PrioritizeRequestError ==
    /\ prioPc = "run"
    /\ prio_ai_result.kind = "error"
    /\ priority' = PriorityOf(factors, prio_ai_result)
    /\ prioPc' = "done"
    /\ UNCHANGED <<prio_request, prio_ai_result, factors>>
    /\ UNCHANGED PrioOthers

\* One call of prioritize_request for any request and any answer.
PrioInit ==
    /\ BaseIdle
    /\ prio_request \in PrioRequests
    /\ prio_ai_result \in AiPriorityResults
    /\ factors = <<>>
    /\ priority = "none"
    /\ prioPc = "start"
    /\ IntakeIdle
    /\ CycleIdle
    /\ ListIdle
    /\ TaskIdle
    /\ WsIdle

PrioNext ==
    \/ PrioritizeRequestFactors
    \/ PrioritizeRequestParse
    \/ PrioritizeRequestError

PrioSpec == PrioInit /\ [][PrioNext]_vars

\* ---------------------------------------------------------- intake actions
\* extract_needs: the need types that have keywords.
NeedTypes == {"food", "water", "medical", "shelter", "rescue", "transport"}

NeedSets == {n \in SUBSET NeedTypes : Cardinality(n) <= MaxNeeds}

\* What the keyword functions find in a text: the need types with a keyword
\* in it (extract_needs) and the level of its strongest urgency word
\* (assess_urgency, "low" when it has none).
IntakeTexts == [needs : NeedSets, urgency : Tiers]

\* What self.run can answer: JSON with needs (empty when the key is missing
\* or falsy), urgency and priority (or without them), text that json.loads
\* rejects, or an exception.
AiIntakeResults ==
    [kind : {"json"}, needs : NeedSets, urgency : Tiers \cup {"absent"},
     priority : Tiers \cup {"absent"}]
        \cup [kind : {"malformed", "error"}, needs : {{}},
              urgency : {"absent"}, priority : {"absent"}]

\* extract_needs: `return list(set(needs)) if needs else ["other"]`.
ExtractNeeds(text) == IF text.needs # {} THEN text.needs ELSE {"other"}

\* assess_urgency.
AssessUrgency(text) == text.urgency

\* determine_request_type: the first type of priority_order among the needs.
DetermineRequestType(needs) ==
    CASE "medical" \in needs -> "medical"
      [] "rescue" \in needs -> "rescue"
      [] "food" \in needs -> "food"
      [] "water" \in needs -> "water"
      [] "shelter" \in needs -> "shelter"
      [] "transport" \in needs -> "transport"
      [] OTHER -> "other"

\* ai_data.get(key, "medium").
GetOrMedium(value) == IF value = "absent" THEN "medium" ELSE value

\* process_request: the answer parses, its values are taken as they are.
ProcessRequestParse ==
    /\ intakePc = "run"
    /\ intake_ai_result.kind = "json"
    /\ pre_adjustment' = [needs |-> intake_ai_result.needs,
                          urgency |-> GetOrMedium(intake_ai_result.urgency),
                          priority |-> GetOrMedium(intake_ai_result.priority)]
    /\ intakePc' = "adjust"
    /\ UNCHANGED <<intake_text, intake_ai_result, processed_data>>
    /\ UNCHANGED IntakeOthers

\* process_request: json.loads rejects the answer, the keyword functions run.
ProcessRequestFallback ==
    /\ intakePc = "run"
    /\ intake_ai_result.kind = "malformed"
    /\ pre_adjustment' = [needs |-> ExtractNeeds(intake_text),
                          urgency |-> AssessUrgency(intake_text),
                          priority |-> AssessUrgency(intake_text)]
    /\ intakePc' = "adjust"
    /\ UNCHANGED <<intake_text, intake_ai_result, processed_data>>
    /\ UNCHANGED IntakeOthers

\* process_request: the condition of the life-safety adjustment.
LifeSafetyAdjusts(request_type, request_priority) ==
    request_type \in {"medical", "rescue"} /\ request_priority \in {"medium", "low"}

\* process_request: the request type, the life-safety adjustment, and the
\* dictionary returned.
ProcessRequestAdjust ==
    /\ intakePc = "adjust"
    /\ LET request_type == DetermineRequestType(pre_adjustment.needs)
           adjust == LifeSafetyAdjusts(request_type, pre_adjustment.priority)
       IN  processed_data' =
               [needs |-> pre_adjustment.needs,
                request_type |-> request_type,
                priority |-> IF adjust THEN "high" ELSE pre_adjustment.priority,
                urgency_level |-> IF adjust THEN "high" ELSE pre_adjustment.urgency,
                ai_processed |-> TRUE]
    /\ intakePc' = "done"
    /\ UNCHANGED <<intake_text, intake_ai_result, pre_adjustment>>
    /\ UNCHANGED IntakeOthers

\* process_request, self.run has raised: the outer except.
ProcessRequestError ==
    /\ intakePc = "run"
    /\ intake_ai_result.kind = "error"
    /\ processed_data' =
           [needs |-> ExtractNeeds(intake_text),
            request_type |-> DetermineRequestType(ExtractNeeds(intake_text)),
            priority |-> "medium",
            urgency_level |-> "medium",
            ai_processed |-> FALSE]
    /\ intakePc' = "done"
    /\ UNCHANGED <<intake_text, intake_ai_result, pre_adjustment>>
    /\ UNCHANGED IntakeOthers

\* One call of process_request for any text and any answer.
IntakeInit ==
    /\ BaseIdle
    /\ PrioIdle
    /\ CycleIdle
    /\ ListIdle
    /\ TaskIdle
    /\ WsIdle
    /\ intake_text \in IntakeTexts
    /\ intake_ai_result \in AiIntakeResults
    /\ pre_adjustment = <<>>
    /\ processed_data = <<>>
    /\ intakePc = "run"

IntakeNext ==
    \/ ProcessRequestParse
    \/ ProcessRequestFallback
    \/ ProcessRequestAdjust
    \/ ProcessRequestError

IntakeSpec == IntakeInit /\ [][IntakeNext]_vars

\* ----------------------------------------------------------- cycle actions
\* The positions of a call that is inside the try block of
\* process_pending_requests.
InCycle == {"fetch", "process", "mark_failed"}

\* Where a call is once process_pending_requests has returned: the loop
\* sleeps until its next call, a task is finished.
Returned(i) == IF i = 0 THEN "sleep" ELSE "finished"

\* process_pending_requests without its test of is_processing.
AlreadyProcessing_Unchecked(flag) == FALSE

\* process_pending_requests: `if self.is_processing: return`.
AlreadyProcessing(flag) == flag

\* A finally clause that the return of the empty batch does not pass.
FinallyRuns_NotOnReturn(path) == path \notin {"no_pending", "fetch_failed"}

\* process_pending_requests: the finally clause runs on every way out of
\* the try block.
FinallyRuns(path) == TRUE

\* process_pending_requests returns from inside the try block.
ExitCycle(i, path) ==
    /\ invocation' = [invocation EXCEPT ![i] = Returned(i)]
    /\ is_processing' = IF FinallyRuns(path)
                          THEN [is_processing EXCEPT ![1] = FALSE]
                          ELSE is_processing
    /\ last_exit' = [last_exit EXCEPT ![i] = path]
    /\ batch_left' = [batch_left EXCEPT ![i] = 0]

\* process_pending_requests is called (by the loop after its sleep, or as a
\* task that was created): it returns at once when a cycle is running, and
\* sets is_processing otherwise. No await lies between the test and the
\* assignment.
CallProcessPendingRequests(i) ==
    /\ invocation[i] = IF i = 0 THEN "sleep" ELSE "scheduled"
    /\ IF AlreadyProcessing(is_processing[1])
         THEN /\ invocation' = [invocation EXCEPT ![i] = Returned(i)]
              /\ last_exit' = [last_exit EXCEPT ![i] = "skipped"]
              /\ UNCHANGED <<is_processing, cycle_failed>>
         ELSE /\ invocation' = [invocation EXCEPT ![i] = "fetch"]
              /\ is_processing' = [is_processing EXCEPT ![1] = TRUE]
              /\ cycle_failed' = [cycle_failed EXCEPT ![i] = FALSE]
              /\ UNCHANGED last_exit
    /\ UNCHANGED <<batch_left, triggers, trigger_status>>
    /\ UNCHANGED CycleOthers

\* What _get_pending_requests hands back: rows, no row, or no row because
\* the store raised.
FetchOutcomes == {"requests", "empty", "error"}

\* process_pending_requests: the awaited fetch returns.
FetchPendingRequests(i, outcome, n) ==
    /\ invocation[i] = "fetch"
    /\ IF outcome = "requests"
         THEN /\ invocation' = [invocation EXCEPT ![i] = "process"]
              /\ batch_left' = [batch_left EXCEPT ![i] = n]
              /\ UNCHANGED <<is_processing, last_exit>>
         ELSE ExitCycle(i, IF outcome = "empty" THEN "no_pending"
                                                ELSE "fetch_failed")
    /\ UNCHANGED <<cycle_failed, triggers, trigger_status>>
    /\ UNCHANGED CycleOthers

\* The way out after the last request of the batch.
CompletedPath(failed) == IF failed THEN "request_failed" ELSE "completed"

\* process_pending_requests: the awaited _process_single_request returns or
\* raises.
ProcessSingleRequest(i, raised) ==
    /\ invocation[i] = "process"
    /\ IF raised
         THEN /\ invocation' = [invocation EXCEPT ![i] = "mark_failed"]
              /\ cycle_failed' = [cycle_failed EXCEPT ![i] = TRUE]
              /\ UNCHANGED <<is_processing, last_exit, batch_left>>
         ELSE /\ IF batch_left[i] > 1
                   THEN /\ batch_left' = [batch_left EXCEPT ![i] = @ - 1]
                        /\ UNCHANGED <<invocation, is_processing, last_exit>>
                   ELSE ExitCycle(i, CompletedPath(cycle_failed[i]))
              /\ UNCHANGED cycle_failed
    /\ UNCHANGED <<triggers, trigger_status>>
    /\ UNCHANGED CycleOthers

\* process_pending_requests: the awaited _mark_request_failed of the except
\* branch returns.
MarkFailedReturns(i) ==
    /\ invocation[i] = "mark_failed"
    /\ IF batch_left[i] > 1
         THEN /\ batch_left' = [batch_left EXCEPT ![i] = @ - 1]
              /\ invocation' = [invocation EXCEPT ![i] = "process"]
              /\ UNCHANGED <<is_processing, last_exit>>
         ELSE ExitCycle(i, CompletedPath(cycle_failed[i]))
    /\ UNCHANGED <<cycle_failed, triggers, trigger_status>>
    /\ UNCHANGED CycleOthers

\* trigger_immediate_processing: answers at once, and creates a task for
\* process_pending_requests unless is_processing is set.
TriggerImmediateProcessing ==
    /\ triggers < MaxTriggers
    /\ triggers' = triggers + 1
    /\ IF is_processing[1]
         THEN /\ trigger_status' = "already_processing"
              /\ UNCHANGED invocation
         ELSE /\ trigger_status' = "processing_started"
              /\ invocation' = [invocation EXCEPT ![triggers + 1] = "scheduled"]
    /\ UNCHANGED <<is_processing, batch_left, cycle_failed, last_exit>>
    /\ UNCHANGED CycleOthers

CycleInit ==
    /\ BaseIdle
    /\ PrioIdle
    /\ IntakeIdle
    /\ CycleIdle
    /\ ListIdle
    /\ TaskIdle
    /\ WsIdle

\* The steps of the calls of process_pending_requests.
CycleRun ==
    \/ \E i \in Invocations : CallProcessPendingRequests(i)
    \/ \E i \in Invocations, o \in FetchOutcomes, n \in 1..MaxBatch :
           FetchPendingRequests(i, o, n)
    \/ \E i \in Invocations, raised \in BOOLEAN : ProcessSingleRequest(i, raised)
    \/ \E i \in Invocations : MarkFailedReturns(i)

CycleNext ==
    \/ CycleRun
    \/ TriggerImmediateProcessing

\* The loop and the created tasks are scheduled, the sleep of the loop ends
\* and every awaited call returns.
CycleSpec == CycleInit /\ [][CycleNext]_vars /\ WF_vars(CycleRun)

\* ------------------------------------------------ list reservation actions
\* A requirement names a resource type, which stands for the lot of that
\* type, and a quantity.
Requirements == [resource_type : Lots, quantity : Quantities]

RequirementLists ==
    UNION {[1..n -> Requirements] : n \in 0..MaxRequirements}

\* reserve_resources returns.
ReserveReturns(result) ==
    /\ reserve_result' = result
    /\ listPc' = "returned"
    /\ UNCHANGED <<requirement_index, stock_read>>

\* reserve_resources, the loop: look for a lot of the type with sufficient
\* stock; `return False` when there is none, `return True` after the last
\* requirement.
ReserveFindResource ==
    /\ listPc = "find"
    /\ IF requirement_index > Len(resource_requirements)
         THEN ReserveReturns(TRUE)
         ELSE LET requirement == resource_requirements[requirement_index] IN
              IF ServiceSufficient(current_stock[requirement.resource_type],
                                   requirement.quantity)
                THEN /\ listPc' = "consume_read"
                     /\ UNCHANGED <<requirement_index, stock_read,
                                    reserve_result>>
                ELSE ReserveReturns(FALSE)
    /\ UNCHANGED <<current_stock, resource_requirements, stock_before>>
    /\ UNCHANGED ListOthers

\* consume_resource -> update_resource_stock: read the current row.
ReserveConsumeRead ==
    /\ listPc = "consume_read"
    /\ stock_read' =
           current_stock[resource_requirements[requirement_index].resource_type]
    /\ listPc' = "consume_write"
    /\ UNCHANGED <<current_stock, resource_requirements, requirement_index,
                   reserve_result, stock_before>>
    /\ UNCHANGED ListOthers

\* consume_resource -> update_resource_stock: write the new stock and go on
\* with the next requirement; when the store raises, update_resource_stock
\* returns None and reserve_resources `return False`.
ReserveConsumeWrite(ok) ==
    /\ listPc = "consume_write"
    /\ LET requirement == resource_requirements[requirement_index] IN
       IF ok
         THEN /\ current_stock' =
                     [current_stock EXCEPT ![requirement.resource_type] =
                         NewStock(stock_read, requirement.quantity, "decrement")]
              /\ requirement_index' = requirement_index + 1
              /\ listPc' = "find"
              /\ UNCHANGED <<stock_read, reserve_result>>
         ELSE /\ ReserveReturns(FALSE)
              /\ UNCHANGED current_stock
    /\ UNCHANGED <<resource_requirements, stock_before>>
    /\ UNCHANGED ListOthers

\* One call of reserve_resources for any list, on lots with any stock.
ListInit ==
    /\ PipeInit
    /\ resource_status = [u \in Resources |-> "AVAILABLE"]
    /\ urgency_level = [r \in Requests |-> IF r = 1 THEN "critical" ELSE "low"]
    /\ current_stock \in [Lots -> 0..MaxStock]
    /\ LotIdle
    /\ PrioIdle
    /\ IntakeIdle
    /\ CycleIdle
    /\ TaskIdle
    /\ WsIdle
    /\ resource_requirements \in RequirementLists
    /\ requirement_index = 1
    /\ stock_read = 0
    /\ reserve_result = "none"
    /\ stock_before = current_stock
    /\ listPc = "find"

ListNext ==
    \/ ReserveFindResource
    \/ ReserveConsumeRead
    \/ \E ok \in BOOLEAN : ReserveConsumeWrite(ok)

ListSpec == ListInit /\ [][ListNext]_vars

\* ------------------------------------------------------ task accept actions
\* assign_task: the update of the row with the id, whatever its assignee is;
\* response.data holds the row when there is one.
AssignTask(t, assignee) ==
    /\ task_exists[t]
    /\ assignee_id' = [assignee_id EXCEPT ![t] = assignee]
    /\ task_status' = [task_status EXCEPT ![t] = "assigned"]

\* PATCH /tasks/{task_id}/accept: the task is assigned to the caller and
\* returned, or 404 'Task not found or already assigned' when assign_task
\* returns None (no row with the id, or the store raised).
AcceptTask(u, t, ok) ==
    /\ accept_response[u][t] = "none"
    /\ IF ok /\ task_exists[t]
         THEN /\ AssignTask(t, u)
              /\ accept_response' = [accept_response EXCEPT ![u][t] = "task"]
         ELSE /\ accept_response' = [accept_response EXCEPT ![u][t] = "404"]
              /\ UNCHANGED <<assignee_id, task_status>>
    /\ UNCHANGED task_exists
    /\ UNCHANGED TaskOthers

\* Any set of task ids has rows, all of them open; every volunteer asks at
\* most once for each id.
TaskInit ==
    /\ BaseIdle
    /\ PrioIdle
    /\ IntakeIdle
    /\ CycleIdle
    /\ ListIdle
    /\ WsIdle
    /\ task_exists \in [Tasks -> BOOLEAN]
    /\ assignee_id = [t \in Tasks |-> 0]
    /\ task_status = [t \in Tasks |-> "open"]
    /\ accept_response = [u \in Volunteers |-> [t \in Tasks |-> "none"]]

TaskNext ==
    \E u \in Volunteers, t \in Tasks, ok \in BOOLEAN : AcceptTask(u, t, ok)

TaskSpec == TaskInit /\ [][TaskNext]_vars

\* -------------------------------------------------------- websocket actions
\* ConnectionManager.disconnect, on active_connections.
ActiveAfterDisconnect(active, gone) == active \ gone

\* ConnectionManager.disconnect, on user_connections: the sockets leave the
\* list of the user, and the key is deleted when the list is empty.
UsersAfterDisconnect(users, gone, user_id) ==
    IF user_id # 0 /\ user_id \in DOMAIN users
      THEN IF users[user_id] \ gone = {}
             THEN [u \in DOMAIN users \ {user_id} |-> users[u]]
             ELSE [users EXCEPT ![user_id] = @ \ gone]
      ELSE users

\* ConnectionManager.connect: a new WebSocket is accepted by one of the two
\* endpoints (user_id 0 stands for /ws, which passes none).
Connect(ws, user_id) ==
    /\ socket_state[ws] = "new"
    /\ active_connections' = active_connections \cup {ws}
    /\ user_connections' =
           IF user_id = 0 THEN user_connections
           ELSE IF user_id \in DOMAIN user_connections
             THEN [user_connections EXCEPT ![user_id] = @ \cup {ws}]
             ELSE [u \in DOMAIN user_connections \cup {user_id} |->
                       IF u = user_id THEN {ws} ELSE user_connections[u]]
    /\ socket_state' = [socket_state EXCEPT ![ws] = "open"]
    /\ socket_user' = [socket_user EXCEPT ![ws] = user_id]
    /\ UNCHANGED WsOthers

\* The endpoint of a socket leaves its loop (WebSocketDisconnect or another
\* exception) and calls ConnectionManager.disconnect.
Disconnect(ws) ==
    /\ socket_state[ws] = "open"
    /\ active_connections' = ActiveAfterDisconnect(active_connections, {ws})
    /\ user_connections' =
           UsersAfterDisconnect(user_connections, {ws}, socket_user[ws])
    /\ socket_state' = [socket_state EXCEPT ![ws] = "closed"]
    /\ UNCHANGED socket_user
    /\ UNCHANGED WsOthers

\* ConnectionManager.send_to_user: the sockets of the user whose send_text
\* raises are disconnected for the user.
SendToUser(user_id, failing) ==
    /\ user_id \in DOMAIN user_connections
    /\ failing \subseteq user_connections[user_id]
    /\ active_connections' = ActiveAfterDisconnect(active_connections, failing)
    /\ user_connections' =
           UsersAfterDisconnect(user_connections, failing, user_id)
    /\ UNCHANGED <<socket_state, socket_user>>
    /\ UNCHANGED WsOthers

\* ConnectionManager.broadcast: the connections whose send_text raises are
\* removed from active_connections.
Broadcast(failing) ==
    /\ failing \subseteq active_connections
    /\ active_connections' = active_connections \ failing
    /\ UNCHANGED <<user_connections, socket_state, socket_user>>
    /\ UNCHANGED WsOthers

WsInit ==
    /\ BaseIdle
    /\ PrioIdle
    /\ IntakeIdle
    /\ CycleIdle
    /\ ListIdle
    /\ TaskIdle
    /\ WsIdle

WsNext ==
    \/ \E ws \in Sockets, u \in WsUsers \cup {0} : Connect(ws, u)
    \/ \E ws \in Sockets : Disconnect(ws)
    \/ \E u \in WsUsers, failing \in SUBSET Sockets : SendToUser(u, failing)
    \/ \E failing \in SUBSET Sockets : Broadcast(failing)

WsSpec == WsInit /\ [][WsNext]_vars

\* ------------------------------------------------------- lot properties
RECURSIVE BagQuantity(_, _)
BagQuantity(B, S) ==
    IF S = {} THEN 0
    ELSE LET r == CHOOSE x \in S : TRUE
         IN r.quantity * CopiesIn(r, B) + BagQuantity(B, S \ {r})

\* Sum of the quantities of the live allocation rows of a lot.
AllocatedQuantity(l) ==
    BagQuantity(resource_allocations,
                {r \in BagToSet(resource_allocations) :
                     r.resource_id = l /\ r.status = "allocated"})

LotsQuiescent == \A w \in Workers : lotPc[w] = "idle"

\* C1: whenever no lot operation is in progress and no store call has
\* failed, available stock plus the live reservations of a lot equals the
\* lot's total quantity.
C1_Linearizable ==
    (LotsQuiescent /\ lotFaults = 0) =>
        \A l \in Lots :
            current_stock[l] + AllocatedQuantity(l) + service_reserved[l]
                = total_quantity[l]

\* C2: the available quantity of every lot is never negative.
C2_StockNonNegative == \A l \in Lots : current_stock[l] >= 0

\* C2 witness: concurrent reservations were granted more than the lot ever
\* held, and the stock they left is zero.
C2_Witness ==
    \E l \in Lots :
        /\ LotsQuiescent
        /\ service_reserved[l] + AllocatedQuantity(l) > total_quantity[l]
        /\ current_stock[l] = 0

\* -------------------------------------------------- pipeline properties
Running(c) == pc[c] # "idle"

Range(seq) == {seq[i] : i \in 1..Len(seq)}

\* C3: no two running cycles are processing the same request at the same
\* time.
C3_SingleWorkerPerRequest ==
    \A c1, c2 \in Coordinators :
        (c1 # c2 /\ Running(c1) /\ Running(c2)) => RequestId(c1) # RequestId(c2)

C5_NoSilentLoss ==
    [][\A c \in Coordinators :
          (Running(c) /\ pc'[c] = "idle") =>
              \A r \in Range(pending_requests[c]) :
                  status'[r] \notin RunnableStatuses]_vars

\* The resources that are marked ASSIGNED to a request.
HeldBy(r) ==
    {u \in Resources :
        resource_status[u] = "ASSIGNED" /\ current_incident_id[u] = r}

AssignmentCommitted(r) ==
    /\ \E a \in resource_assignments : a.incident_id = r
    /\ \A a \in resource_assignments :
           a.incident_id = r => a.resource_id \in HeldBy(r)

StageRank(st) ==
    CASE st = "PENDING" -> 0
      [] st = "SUBMITTED" -> 0
      [] st = "RETRY" -> 0
      [] st = "INTAKE_COMPLETE" -> 1
      [] st = "PRIORITIZED" -> 2
      [] st = "NO_RESOURCES_AVAILABLE" -> 2
      [] st = "RESOURCES_ASSIGNED" -> 3
      [] st = "PROCESSING_COMPLETE" -> 4
      [] OTHER -> 0 - 1

C9_SuccessfulRequestNotFailed ==
    dbFaults = 0 =>
    \A r \in Requests : status[r] = "PROCESSING_FAILED" => r \in executor_error

C11_FailedOnlyAfterRetries ==
    dbFaults = 0 =>
    \A r \in Requests :
        status[r] = "PROCESSING_FAILED" => stage_failures[r] > 2

LastKnownStatus(c) ==
    CASE pc[c] = "intake" -> "PENDING"
      [] pc[c] = "prioritize" -> "INTAKE_COMPLETE"
      [] pc[c] \in {"get_resources", "assign"} -> "PRIORITIZED"
      [] pc[c] \in {"create_assignments", "update_resources", "notify"} ->
             "RESOURCES_ASSIGNED"
      [] OTHER -> status[RequestId(c)]

\* A step of the cycle that a coordinator is running.
CoordinatorStep(c) ==
    /\ Running(c)
    /\ <<pc[c], cursor[c]>> # <<pc'[c], cursor'[c]>>

C17_FailureIsolated ==
    [][\A c \in Coordinators :
          (pc[c] = "failed_outer" /\ pc'[c] # "failed_outer") =>
              /\ status'[RequestId(c)] = "PROCESSING_FAILED"
              /\ error_message'[RequestId(c)]
              /\ cursor[c] < Len(pending_requests[c]) =>
                     /\ pc'[c] = "intake"
                     /\ cursor'[c] = cursor[c] + 1
                     /\ pending_requests'[c] = pending_requests[c]]_vars

TerminalStatuses == {"PROCESSING_COMPLETE", "PROCESSING_FAILED"}

StoredOutputs(r) == {agent_processing_data[r]} \ {"none"}

C20_ReserveExact ==
    (lotFaults = 0 /\ last_reserve.op # "none" /\ last_reserve.quantity > 0) =>
        /\ last_reserve.taken = (last_reserve.stock >= last_reserve.quantity)
        /\ last_reserve.returned = last_reserve.taken

OneFactorHigher(q1, q2) ==
    LET f1 == CalculatePriorityFactors(q1)
        f2 == CalculatePriorityFactors(q2)
    IN  \E i \in 1..Len(f1) :
            /\ f2[i] > f1[i]
            /\ \A j \in 1..Len(f1) : j # i => f2[j] = f1[j]

C23_StricterOfTwo ==
    (prioPc = "done" /\ prio_ai_result.kind = "json"
        /\ prio_ai_result.priority \in Tiers) =>
        LET det == TierRank(FallbackPriority(factors))
            sug == TierRank(prio_ai_result.priority)
        IN  TierRank(priority) = IF det >= sug THEN det ELSE sug

\* ------------------------------------------------------ intake properties
\* C24: whatever the collaborator answers, process_request returns a result
\* with at least one need and an urgency of the four levels; an answer that
\* does not parse gives the needs of the keyword functions and at least
\* their urgency.
C24_InterpretAlwaysCompletes ==
    intakePc = "done" =>
        /\ processed_data.needs # {}
        /\ processed_data.urgency_level \in Tiers
        /\ intake_ai_result.kind = "malformed" =>
               /\ processed_data.needs = ExtractNeeds(intake_text)
               /\ TierRank(processed_data.urgency_level)
                      >= TierRank(AssessUrgency(intake_text))

\* C28: for a request of type medical or rescue, the priority and the
\* urgency returned are at least "high" and not below their values before
\* the adjustment.
C28_LifeSafetyOnlyRaises ==
    (intakePc = "done" /\ processed_data.request_type \in {"medical", "rescue"}) =>
        /\ TierRank(processed_data.priority) >= TierRank("high")
        /\ TierRank(processed_data.urgency_level) >= TierRank("high")
        /\ processed_data.ai_processed =>
               /\ TierRank(processed_data.priority)
                      >= TierRank(pre_adjustment.priority)
               /\ TierRank(processed_data.urgency_level)
                      >= TierRank(pre_adjustment.urgency)

\* ------------------------------------------------------- cycle properties
\* The calls of process_pending_requests that are running a cycle.
CycleRunning == {i \in Invocations : invocation[i] \in InCycle}

\* C25: at most one cycle of the coordinator is running at any time, and a
\* manual trigger answers in one step that moves no running cycle:
\* 'already_processing' when a cycle is running, 'processing_started'
\* otherwise.
C25_TriggerNeverOverlaps ==
    /\ [](Cardinality(CycleRunning) <= 1)
    /\ [][triggers' # triggers =>
             /\ trigger_status' = IF CycleRunning # {}
                                    THEN "already_processing"
                                    ELSE "processing_started"
             /\ \A i \in CycleRunning :
                    /\ invocation'[i] = invocation[i]
                    /\ batch_left'[i] = batch_left[i]]_vars

\* A trigger was answered 'already_processing', and a task created by an
\* earlier trigger found a cycle running and returned at once.
C25_Witness ==
    /\ trigger_status = "already_processing"
    /\ \E i \in Invocations : i # 0 /\ last_exit[i] = "skipped"
    /\ CycleRunning # {}

\* C26: is_processing is clear whenever a cycle has been left (no pending
\* request, a failing request, a failing fetch, completion), and the loop
\* starts a cycle again and again.
C26_FlagAlwaysReleased ==
    /\ [](CycleRunning = {} => ~is_processing[1])
    /\ [][\A i \in Invocations :
             (i \in CycleRunning /\ i \notin CycleRunning') => ~is_processing'[1]]_vars
    /\ []<>(invocation[0] = "fetch")

\* The loop is running a cycle again after a cycle of its own in which a
\* request failed.
C26_Witness ==
    /\ invocation[0] = "fetch"
    /\ is_processing[1]
    /\ last_exit[0] = "request_failed"

\* --------------------------------------------- list reservation properties
\* C27: when reserve_resources returns False for a list, the stock of every
\* lot is what it was when the call started.
C27_ReserveAllOrNothing ==
    (listPc = "returned" /\ reserve_result = FALSE) =>
        current_stock = stock_before

\* ------------------------------------------------------ task accept properties
\* C29: of the volunteers that ask to accept a task, at most one is answered
\* that the task is theirs, and that volunteer is the assignee of the task.
C29_AcceptExclusive ==
    \A t \in Tasks :
        LET accepted == {u \in Volunteers : accept_response[u][t] = "task"}
        IN  /\ Cardinality(accepted) <= 1
            /\ \A u \in accepted : assignee_id[t] = u

\* -------------------------------------------------------- websocket properties
\* C30: every socket in the list of a user is an active connection, and no
\* user has an empty list.
C30_UserSocketsActive ==
    \A u \in DOMAIN user_connections :
        /\ user_connections[u] # {}
        /\ user_connections[u] \subseteq active_connections
====
